---- MODULE Spec2Model ----
(***************************************************************************)
(* Model of the Azure Data Explorer MCP adapter                            *)
(* (src/src/adx-mcp-server/server.py).                                     *)
(*                                                                         *)
(* The four tools are coroutines without a single await: on the host's     *)
(* event loop each invocation runs from its configuration check to its     *)
(* return (or raise) without yielding, so each tool is one atomic action.  *)
(* The database client is an external collaborator: what execute() gives   *)
(* back (a result set or an exception) is an input of the action.          *)
(*                                                                         *)
(* Python values are records [type, val]; a dict is the sequence of its    *)
(* (key, value) items in insertion order; the result of a call is a record *)
(* [raised, exc, value].                                                   *)
(***************************************************************************)
EXTENDS Integers, Sequences, FiniteSets, TLC

VARIABLES config, clients, execute_calls, history, result_set, formatted, tasks

vars == <<config, clients, execute_calls, history, result_set, formatted, tasks>>

\* ------------------------------------------------------------------ bounds
MaxInvocations == 2
MaxCols == 2
MaxRowLen == 2
MaxRows == 2
MaxTasks == 2

\* ------------------------------------------------------- Python data model
PyNone == [type |-> "NoneType", val |-> ""]
PyStr(s) == [type |-> "str", val |-> s]
PyInt(s) == [type |-> "int", val |-> s]

\* bool(v) for the values the configuration holds: None and "" are falsy
Truthy(v) == v.type # "NoneType" /\ ~(v.type = "str" /\ v.val = "")

NoExc == [type |-> "", msg |-> ""]
Return(v) == [raised |-> FALSE, exc |-> NoExc, value |-> v]
Raise(e) == [raised |-> TRUE, exc |-> e, value |-> <<>>]

Range(s) == {s[i] : i \in 1..Len(s)}

\* s contains sub as a substring (Python: sub in s)
Contains(s, sub) == \E i \in 1..(Len(s) - Len(sub) + 1) : SubSeq(s, i, i + Len(sub) - 1) = sub

\* str(n) for an int, as an f-string renders it
Digit(d) == SubSeq("0123456789", d + 1, d + 1)
RECURSIVE NatToStr(_)
NatToStr(n) == IF n < 10 THEN Digit(n) ELSE NatToStr(n \div 10) \o Digit(n % 10)
IntToStr(n) == IF n < 0 THEN "-" \o NatToStr(-n) ELSE NatToStr(n)

\* d[k] = v that puts a new key in front of the earlier ones
DictSet_front(d, k, v) ==
    IF \E n \in 1..Len(d) : d[n].key = k
    THEN [n \in 1..Len(d) |-> IF d[n].key = k THEN [key |-> k, value |-> v] ELSE d[n]]
    ELSE <<[key |-> k, value |-> v]>> \o d

\* d[k] = v on an insertion-ordered dict
RECURSIVE DictSet(_, _, _)
DictSet(d, k, v) ==
    IF d = <<>> THEN <<[key |-> k, value |-> v]>>
    ELSE IF Head(d).key = k THEN <<[key |-> k, value |-> v]>> \o Tail(d)
    ELSE <<Head(d)>> \o DictSet(Tail(d), k, v)

\* --------------------------------------------------------- error messages
ConfigError == [type |-> "ValueError", msg |-> "Azure Data Explorer configuration is missing. Please set ADX_CLUSTER_URL and ADX_DATABASE environment variables."]
CredentialsError == [type |-> "ValueError", msg |-> "Client credentials are missing. Please set AZURE_TENANT_ID, AZURE_CLIENT_ID, and AZURE_CLIENT_SECRET environment variables."]
IndexError == [type |-> "IndexError", msg |-> "list index out of range"]

\* ------------------------------------------------------------ result sets
NoneResultSet == [is_none |-> TRUE, primary_results |-> <<>>]
ResultSet(tables) == [is_none |-> FALSE, primary_results |-> tables]
Table(cols, rows) == [columns |-> [i \in 1..Len(cols) |-> [column_name |-> cols[i]]], rows |-> rows]

\* the result set of tests/test_server.py::test_execute_query
ExampleResultSet == ResultSet(<<Table(<<"Column1", "Column2">>, << <<PyStr("Value1"), PyInt("1")>>, <<PyStr("Value2"), PyInt("2")>> >>)>>)

\* one row of format_query_results: the inner loop over enumerate(row).
\* Yields the record, or raises IndexError at the first i beyond columns.
RECURSIVE FormatRow(_, _, _, _)
FormatRow(columns, row, i, record) ==
    IF i > Len(row) THEN Return(record)
    ELSE IF i > Len(columns) THEN Raise(IndexError)
    ELSE FormatRow(columns, row, i + 1, DictSet(record, columns[i], row[i]))

\* the outer loop with insert(0, record) in place of append(record)
RECURSIVE FormatRows_prepend(_, _, _, _)
FormatRows_prepend(columns, rows, r, formatted_results) ==
    IF r > Len(rows) THEN Return(formatted_results)
    ELSE LET rec == FormatRow(columns, rows[r], 1, <<>>)
         IN IF rec.raised THEN rec
            ELSE FormatRows_prepend(columns, rows, r + 1, <<rec.value>> \o formatted_results)

\* the outer loop over primary_result.rows
RECURSIVE FormatRows(_, _, _, _)
FormatRows(columns, rows, r, formatted_results) ==
    IF r > Len(rows) THEN Return(formatted_results)
    ELSE LET rec == FormatRow(columns, rows[r], 1, <<>>)
         IN IF rec.raised THEN rec
            ELSE FormatRows(columns, rows, r + 1, Append(formatted_results, rec.value))

AttributeError == [type |-> "AttributeError", msg |-> "'NoneType' object has no attribute 'primary_results'"]

\* format_query_results without the `not result_set` test
format_query_results_no_none_check(rs) ==
    IF rs.is_none THEN Raise(AttributeError)
    ELSE IF rs.primary_results = <<>> THEN Return(<<>>)
    ELSE LET primary_result == rs.primary_results[1]
             columns == [i \in 1..Len(primary_result.columns) |-> primary_result.columns[i].column_name]
         IN FormatRows(columns, primary_result.rows, 1, <<>>)

format_query_results(rs) ==
    IF rs.is_none \/ rs.primary_results = <<>> THEN Return(<<>>)
    ELSE LET primary_result == rs.primary_results[1]
             columns == [i \in 1..Len(primary_result.columns) |-> primary_result.columns[i].column_name]
         IN FormatRows(columns, primary_result.rows, 1, <<>>)

\* ---------------------------------------------------------- configuration
\* the configuration test with `and` in place of `or`
ConfigMissing_and == ~Truthy(config.cluster_url) /\ ~Truthy(config.database)

ConfigMissing == ~Truthy(config.cluster_url) \/ ~Truthy(config.database)

\* the credentials test with any() in place of all()
CredentialsMissing_any == ~(Truthy(config.tenant_id) \/ Truthy(config.client_id) \/ Truthy(config.client_secret))

CredentialsMissing == ~(Truthy(config.tenant_id) /\ Truthy(config.client_id) /\ Truthy(config.client_secret))

\* a client kept in a module-level cache and handed out again
PooledKustoClient ==
    [id |-> 1,
     connection_string |-> config.cluster_url,
     aad_app_id |-> config.client_id,
     app_key |-> config.client_secret,
     authority_id |-> config.tenant_id]

\* KustoClient(kcsb): a new object, told apart from every earlier one by id
NewKustoClient ==
    [id |-> Cardinality(clients) + 1,
     connection_string |-> config.cluster_url,
     aad_app_id |-> config.client_id,
     app_key |-> config.client_secret,
     authority_id |-> config.tenant_id]

NoClient == [id |-> 0, connection_string |-> PyNone, aad_app_id |-> PyNone, app_key |-> PyNone, authority_id |-> PyNone]

get_kusto_client ==
    IF CredentialsMissing THEN [raised |-> TRUE, exc |-> CredentialsError, value |-> NoClient]
    ELSE [raised |-> FALSE, exc |-> NoExc, value |-> NewKustoClient]

\* ------------------------------------------------------------ query texts
DefaultSampleSize == 10

\* the raw query wrapped in quotes before it is sent
execute_query_text_quoted(query) == "'" \o query \o "'"

execute_query_text(query) == query

list_tables_text == ".show tables | project TableName, Folder, DatabaseName"

get_table_schema_text(table_name) == ".show table " \o table_name \o " | getschema"

\* the sample query written with `take`
sample_table_data_text_take(table_name, sample_size) == table_name \o " | take " \o IntToStr(sample_size)

sample_table_data_text(table_name, sample_size) == table_name \o " | sample " \o IntToStr(sample_size)

\* ------------------------------------------------- inputs of the actions
Queries == {"test query", "  T | where a == 'x'  "}
TableNames == {"T", "my table"}
SampleSizes == {5, 120, -1}
ExecuteErrors == {[type |-> "KustoServiceError", msg |-> "Request is invalid"], [type |-> "ConnectionError", msg |-> "timed out"]}
LongRowResultSet == ResultSet(<<Table(<<"Column1">>, << <<PyStr("Value1"), PyInt("1")>> >>)>>)
Responses == {Raise(e) : e \in ExecuteErrors} \cup {Return(rs) : rs \in {NoneResultSet, ExampleResultSet, LongRowResultSet}}
NoResponse == [raised |-> FALSE, exc |-> NoExc, value |-> NoneResultSet]

\* the execute call wrapped in try/except that returns no rows on failure
execute_then_format_swallow(response) ==
    IF response.raised THEN Return(<<>>) ELSE format_query_results(response.value)

\* result_set = client.execute(...); return format_query_results(result_set)
execute_then_format(response) ==
    IF response.raised THEN Raise(response.exc) ELSE format_query_results(response.value)

\* the tool body that blanks config.client_secret once the client is built
ToolBody_scrub_secret(op, args, text, response) ==
    LET inv == Len(history) + 1
        entry(resp, out, c) == [op |-> op, args |-> args, response |-> resp, outcome |-> out, client |-> c]
    IN /\ Len(history) < MaxInvocations
       /\ IF ConfigMissing
          THEN /\ history' = Append(history, entry(NoResponse, Raise(ConfigError), 0))
               /\ UNCHANGED <<config, clients, execute_calls>>
          ELSE LET client == get_kusto_client
               IN IF client.raised
                  THEN /\ history' = Append(history, entry(NoResponse, Raise(client.exc), 0))
                       /\ UNCHANGED <<config, clients, execute_calls>>
                  ELSE /\ clients' = clients \cup {client.value}
                       /\ execute_calls' = Append(execute_calls, [client |-> client.value.id, database |-> config.database, query |-> text, inv |-> inv])
                       /\ history' = Append(history, entry(response, execute_then_format(response), client.value.id))
                       /\ config' = [config EXCEPT !.client_secret = PyStr("")]
       /\ UNCHANGED <<result_set, formatted, tasks>>

\* the body every tool shares: check the configuration, obtain a client,
\* execute the query text against config.database, normalise the result
ToolBody(op, args, text, response) ==
    LET inv == Len(history) + 1
        entry(resp, out, c) == [op |-> op, args |-> args, response |-> resp, outcome |-> out, client |-> c]
    IN /\ Len(history) < MaxInvocations
       /\ IF ConfigMissing
          THEN /\ history' = Append(history, entry(NoResponse, Raise(ConfigError), 0))
               /\ UNCHANGED <<clients, execute_calls>>
          ELSE LET client == get_kusto_client
               IN IF client.raised
                  THEN /\ history' = Append(history, entry(NoResponse, Raise(client.exc), 0))
                       /\ UNCHANGED <<clients, execute_calls>>
                  ELSE /\ clients' = clients \cup {client.value}
                       /\ execute_calls' = Append(execute_calls, [client |-> client.value.id, database |-> config.database, query |-> text, inv |-> inv])
                       /\ history' = Append(history, entry(response, execute_then_format(response), client.value.id))
       /\ UNCHANGED <<config, result_set, formatted, tasks>>

Args(query, table_name, sample_size, size_given) == [query |-> query, table_name |-> table_name, sample_size |-> sample_size, size_given |-> size_given]

execute_query ==
    \E query \in Queries, response \in Responses :
        ToolBody("execute_query", Args(query, "", 0, FALSE), execute_query_text(query), response)

list_tables ==
    \E response \in Responses :
        ToolBody("list_tables", Args("", "", 0, FALSE), list_tables_text, response)

get_table_schema ==
    \E table_name \in TableNames, response \in Responses :
        ToolBody("get_table_schema", Args("", table_name, 0, FALSE), get_table_schema_text(table_name), response)

\* sample_size is optional: when the caller omits it, the default applies
sample_table_data ==
    \E table_name \in TableNames, size_given \in BOOLEAN, given \in SampleSizes, response \in Responses :
        LET sample_size == IF size_given THEN given ELSE DefaultSampleSize
        IN ToolBody("sample_table_data", Args("", table_name, IF size_given THEN given ELSE 0, size_given),
                    sample_table_data_text(table_name, sample_size), response)

\* ---------------------------------------------------------- specification
ClusterUrls == {PyStr(""), PyStr("https://testcluster.region.kusto.windows.net")}
Databases == {PyStr(""), PyStr("testdb")}
TenantIds == {PyNone, PyStr(""), PyStr("test-tenant-id")}
ClientIds == {PyNone, PyStr(""), PyStr("test-client-id")}
ClientSecrets == {PyNone, PyStr(""), PyStr("test-client-secret")}

Configs == [cluster_url : ClusterUrls, database : Databases, tenant_id : TenantIds, client_id : ClientIds, client_secret : ClientSecrets]

\* an invocation the host has not dispatched yet
IdleTask == [pc |-> "idle", op |-> "", args |-> Args("", "", 0, FALSE), client |-> 0, response |-> NoResponse, outcome |-> Return(<<>>)]
IdleTasks == [t \in 1..MaxTasks |-> IdleTask]

Init ==
    /\ config \in Configs
    /\ clients = {}
    /\ execute_calls = <<>>
    /\ history = <<>>
    /\ result_set = NoneResultSet
    /\ formatted = <<>>
    /\ tasks = IdleTasks

Next == execute_query \/ list_tables \/ get_table_schema \/ sample_table_data

Spec == Init /\ [][Next]_vars

\* ------------------------------------- format_query_results, on its own
ColumnNames == {"Column1", "Column2"}
CellValues == {PyStr("Value1"), PyInt("1")}
ColumnLists == UNION {[1..n -> ColumnNames] : n \in 0..MaxCols}
Rows == UNION {[1..n -> CellValues] : n \in 0..MaxRowLen}
RowLists == UNION {[1..n -> Rows] : n \in 0..MaxRows}
SecondTable == Table(<<"Column2">>, << <<PyInt("1")>> >>)
\* the result sets without rows to read, and the example of the tests
FixedResultSets == {NoneResultSet, ResultSet(<<>>), ExampleResultSet}
\* a result set of one or two primary tables, the first built from cols and rows
ResultSetOf(cols, rows, two_tables) ==
    IF two_tables THEN ResultSet(<<Table(cols, rows), SecondTable>>) ELSE ResultSet(<<Table(cols, rows)>>)

ValidConfig ==
    [cluster_url |-> PyStr("https://testcluster.region.kusto.windows.net"), database |-> PyStr("testdb"),
     tenant_id |-> PyStr("test-tenant-id"), client_id |-> PyStr("test-client-id"), client_secret |-> PyStr("test-client-secret")]

InitFormat ==
    /\ config = ValidConfig
    /\ clients = {}
    /\ execute_calls = <<>>
    /\ history = <<>>
    /\ \/ result_set \in FixedResultSets
       \/ \E cols \in ColumnLists, rows \in RowLists, two_tables \in BOOLEAN :
            result_set = ResultSetOf(cols, rows, two_tables)
    /\ formatted = <<>>
    /\ tasks = IdleTasks

Normalize ==
    /\ formatted = <<>>
    /\ formatted' = <<format_query_results(result_set)>>
    /\ UNCHANGED <<config, clients, execute_calls, history, result_set, tasks>>

NextFormat == Normalize

SpecFormat == InitFormat /\ [][NextFormat]_vars

\* ------------- format_query_results on result sets as the client builds them:
\* column names pairwise distinct, every row as long as the column list
DistinctColumnLists == {cols \in ColumnLists : \A j1, j2 \in 1..Len(cols) : cols[j1] = cols[j2] => j1 = j2}
Aligned(cols, rows) == \A i \in 1..Len(rows) : Len(rows[i]) = Len(cols)

InitAligned ==
    /\ config = ValidConfig
    /\ clients = {}
    /\ execute_calls = <<>>
    /\ history = <<>>
    /\ \/ result_set \in FixedResultSets
       \/ \E cols \in DistinctColumnLists, rows \in RowLists, two_tables \in BOOLEAN :
            /\ Aligned(cols, rows)
            /\ result_set = ResultSetOf(cols, rows, two_tables)
    /\ formatted = <<>>
    /\ tasks = IdleTasks

SpecFormatAligned == InitAligned /\ [][NextFormat]_vars

\* ------------------------------------------- invocations run side by side
\* Each dispatched invocation is a task with its own locals (client,
\* result_set); a step of a task is one statement of the tool body that
\* reads or writes what other tasks can see (config, the client objects,
\* the calls issued).  Any interleaving of the steps of different tasks is
\* allowed, which includes every order the host's scheduler can produce.
ConcurrentCalls ==
    {[op |-> "execute_query", args |-> Args("  T | where a == 'x'  ", "", 0, FALSE)],
     [op |-> "list_tables", args |-> Args("", "", 0, FALSE)],
     [op |-> "get_table_schema", args |-> Args("", "T", 0, FALSE)],
     [op |-> "sample_table_data", args |-> Args("", "my table", -1, TRUE)],
     [op |-> "sample_table_data", args |-> Args("", "T", 0, FALSE)]}
ConcurrentResponses == {Raise([type |-> "ConnectionError", msg |-> "timed out"]), Return(ExampleResultSet), Return(NoneResultSet)}
ConcurrentConfigs ==
    {ValidConfig,
     [ValidConfig EXCEPT !.database = PyStr("")],
     [ValidConfig EXCEPT !.tenant_id = PyNone],
     [ValidConfig EXCEPT !.cluster_url = PyStr(""), !.client_secret = PyStr("")]}

\* the query text a tool builds from its own parameters
QueryText(op, args) ==
    CASE op = "execute_query" -> execute_query_text(args.query)
      [] op = "list_tables" -> list_tables_text
      [] op = "get_table_schema" -> get_table_schema_text(args.table_name)
      [] op = "sample_table_data" ->
            sample_table_data_text(args.table_name, IF args.size_given THEN args.sample_size ELSE DefaultSampleSize)

\* result_set kept in a module-level variable: whichever task executed last
\* wrote it
last_response(t) == tasks[execute_calls[Len(execute_calls)].inv].response

\* result_set is a local of the coroutine
local_response(t) == tasks[t].response

InitConcurrent ==
    /\ config \in ConcurrentConfigs
    /\ clients = {}
    /\ execute_calls = <<>>
    /\ history = <<>>
    /\ result_set = NoneResultSet
    /\ formatted = <<>>
    /\ tasks = IdleTasks

\* the host calls a tool with its parameters
Dispatch(t) ==
    /\ tasks[t].pc = "idle"
    /\ \E call \in ConcurrentCalls :
        tasks' = [tasks EXCEPT ![t] = [@ EXCEPT !.pc = "check", !.op = call.op, !.args = call.args]]
    /\ UNCHANGED <<config, clients, execute_calls, history, result_set, formatted>>

\* if not config.cluster_url or not config.database: raise ValueError(...)
CheckConfiguration(t) ==
    /\ tasks[t].pc = "check"
    /\ tasks' = [tasks EXCEPT ![t] =
            IF ConfigMissing THEN [@ EXCEPT !.pc = "done", !.outcome = Raise(ConfigError)]
            ELSE [@ EXCEPT !.pc = "client"]]
    /\ UNCHANGED <<config, clients, execute_calls, history, result_set, formatted>>

\* client = get_kusto_client()
ObtainClient(t) ==
    /\ tasks[t].pc = "client"
    /\ LET client == get_kusto_client
       IN IF client.raised
          THEN /\ tasks' = [tasks EXCEPT ![t] = [@ EXCEPT !.pc = "done", !.outcome = Raise(client.exc)]]
               /\ UNCHANGED clients
          ELSE /\ clients' = clients \cup {client.value}
               /\ tasks' = [tasks EXCEPT ![t] = [@ EXCEPT !.pc = "execute", !.client = client.value.id]]
    /\ UNCHANGED <<config, execute_calls, history, result_set, formatted>>

\* result_set = client.execute(config.database, query)
Execute(t) ==
    /\ tasks[t].pc = "execute"
    /\ \E response \in ConcurrentResponses :
        tasks' = [tasks EXCEPT ![t] = [@ EXCEPT !.pc = "format", !.response = response]]
    /\ execute_calls' = Append(execute_calls,
            [client |-> tasks[t].client, database |-> config.database, query |-> QueryText(tasks[t].op, tasks[t].args), inv |-> t])
    /\ UNCHANGED <<config, clients, history, result_set, formatted>>

\* the exception of execute leaves the coroutine, or
\* return format_query_results(result_set)
ReturnRecords(t) ==
    /\ tasks[t].pc = "format"
    /\ tasks' = [tasks EXCEPT ![t] = [@ EXCEPT !.pc = "done", !.outcome = execute_then_format(local_response(t))]]
    /\ UNCHANGED <<config, clients, execute_calls, history, result_set, formatted>>

NextConcurrent ==
    \E t \in 1..MaxTasks :
        \/ Dispatch(t)
        \/ CheckConfiguration(t)
        \/ ObtainClient(t)
        \/ Execute(t)
        \/ ReturnRecords(t)

SpecConcurrent == InitConcurrent /\ [][NextConcurrent]_vars

\* ================================================================= claims
Invocations == 1..Len(history)
CallsOf(i) == {k \in 1..Len(execute_calls) : execute_calls[k].inv = i}
FailedWith(i, text) ==
    /\ history[i].outcome.raised
    /\ history[i].outcome.value = <<>>
    /\ Contains(history[i].outcome.exc.msg, text)

EndpointOrDatabaseEmpty == config.cluster_url.val = "" \/ config.database.val = ""
Absent(v) == v = PyNone \/ v = PyStr("")
SomeCredentialAbsent == Absent(config.tenant_id) \/ Absent(config.client_id) \/ Absent(config.client_secret)
Usable == ~EndpointOrDatabaseEmpty /\ ~SomeCredentialAbsent

\* C1: when the endpoint or the database is empty, every invocation of any
\* of the four tools fails with an error whose message contains
\* "configuration is missing" (and not the credentials message), whatever
\* the credentials are, and no client is constructed and no execute call
\* is issued.
C1_ConfigErrorFirst ==
    EndpointOrDatabaseEmpty =>
        /\ clients = {}
        /\ execute_calls = <<>>
        /\ \A i \in Invocations :
            /\ FailedWith(i, "configuration is missing")
            /\ ~Contains(history[i].outcome.exc.msg, "credentials are missing")
            /\ history[i].client = 0

\* the database alone is empty, the credentials are missing too, and two
\* different tools have been invoked
C1_Witness ==
    /\ config.cluster_url.val # ""
    /\ config.database.val = ""
    /\ SomeCredentialAbsent
    /\ Len(history) = 2
    /\ history[1].op = "sample_table_data"
    /\ history[2].op = "list_tables"

\* C2: with endpoint and database set and at least one of the three
\* credentials None or empty, every invocation fails with an error whose
\* message contains "credentials are missing"; no client handle is
\* returned or constructed and no execute call is issued.
C2_CredentialsError ==
    (~EndpointOrDatabaseEmpty /\ SomeCredentialAbsent) =>
        /\ clients = {}
        /\ execute_calls = <<>>
        /\ \A i \in Invocations :
            /\ FailedWith(i, "credentials are missing")
            /\ history[i].client = 0

\* partial credentials (only the tenant is None, as in
\* test_client_credential_error) and a tool has been invoked
C2_Witness ==
    /\ ~EndpointOrDatabaseEmpty
    /\ config.tenant_id = PyNone
    /\ ~Absent(config.client_id)
    /\ ~Absent(config.client_secret)
    /\ \E i \in Invocations : history[i].op = "execute_query"

\* C3: with a usable configuration, execute_query(q) issues exactly one
\* execute call, on the configured database, whose query is exactly q.
C3_RawQueryVerbatim ==
    Usable =>
        \A i \in Invocations :
            history[i].op = "execute_query" =>
                /\ Cardinality(CallsOf(i)) = 1
                /\ \A k \in CallsOf(i) :
                    /\ execute_calls[k].database = config.database
                    /\ execute_calls[k].query = history[i].args.query

\* a query with leading and trailing blanks and quotes has been executed
C3_Witness ==
    /\ Usable
    /\ \E i \in Invocations :
        /\ history[i].op = "execute_query"
        /\ history[i].args.query = "  T | where a == 'x'  "
        /\ CallsOf(i) # {}

\* the decimal rendering of the sample sizes the model draws
DecimalText(n) == CASE n = 5 -> "5" [] n = 120 -> "120" [] n = -1 -> "-1"

ExpectedText(h) ==
    CASE h.op = "list_tables" -> ".show tables | project TableName, Folder, DatabaseName"
      [] h.op = "get_table_schema" -> ".show table " \o h.args.table_name \o " | getschema"
      [] h.op = "sample_table_data" ->
            h.args.table_name \o " | sample " \o (IF h.args.size_given THEN DecimalText(h.args.sample_size) ELSE "10")

\* C4: with a usable configuration, each templated tool issues exactly one
\* execute call on the configured database whose query text is its
\* template: the list_tables literal, `.show table T | getschema`,
\* `T | sample n`, and `T | sample 10` when the size is omitted.
C4_TemplatedQueries ==
    Usable =>
        \A i \in Invocations :
            history[i].op # "execute_query" =>
                /\ Cardinality(CallsOf(i)) = 1
                /\ \A k \in CallsOf(i) :
                    /\ execute_calls[k].database = config.database
                    /\ execute_calls[k].query = ExpectedText(history[i])

\* sample_table_data("T") with the size omitted has issued `T | sample 10`
\* after get_table_schema("my table") issued its query
C4_Witness ==
    /\ Usable
    /\ Len(history) = 2
    /\ history[1].op = "get_table_schema"
    /\ history[1].args.table_name = "my table"
    /\ history[2].op = "sample_table_data"
    /\ ~history[2].args.size_given
    /\ execute_calls[2].query = "T | sample 10"

NoRowsToNormalize(rs) ==
    \/ rs.is_none
    \/ rs.primary_results = <<>>
    \/ rs.primary_results[1].rows = <<>>

\* C5: normalising a result set that is None, or has no primary table, or
\* whose first primary table has no rows returns the empty sequence and
\* raises nothing.
C5_EmptyNormalizesToEmpty ==
    (formatted # <<>> /\ NoRowsToNormalize(result_set)) =>
        /\ ~formatted[1].raised
        /\ formatted[1].value = <<>>

\* None has been normalised
C5_Witness ==
    /\ formatted # <<>>
    /\ result_set.is_none

HasPrimaryTable(rs) == ~rs.is_none /\ rs.primary_results # <<>>
ColumnNamesOf(t) == [j \in 1..Len(t.columns) |-> t.columns[j].column_name]
KeysOf(record) == [n \in 1..Len(record) |-> record[n].key]
\* record[name] is defined and equals v
Maps(record, name, v) == \E n \in 1..Len(record) : record[n].key = name /\ record[n].value = v
DistinctNames(t) == \A j1, j2 \in 1..Len(t.columns) : t.columns[j1].column_name = t.columns[j2].column_name => j1 = j2

KeysAreColumns(rs, out) ==
    \A i \in 1..Len(out.value) : KeysOf(out.value[i]) = ColumnNamesOf(rs.primary_results[1])

\* C7 as stated: whenever normalising returns records, each record's key
\* sequence equals the first primary table's column-name list, also when
\* rows are shorter or longer than the column list or names repeat.
C7_Original ==
    (formatted # <<>> /\ ~formatted[1].raised /\ HasPrimaryTable(result_set)) =>
        KeysAreColumns(result_set, formatted[1])

\* C7, amended: each record's key sequence equals the column-name list
\* provided the column names are pairwise distinct and no row has fewer
\* values than there are columns.
C7_UniformKeys ==
    (/\ formatted # <<>>
     /\ ~formatted[1].raised
     /\ HasPrimaryTable(result_set)
     /\ DistinctNames(result_set.primary_results[1])
     /\ \A i \in 1..Len(result_set.primary_results[1].rows) :
            Len(result_set.primary_results[1].rows[i]) >= Len(result_set.primary_results[1].columns)) =>
        KeysAreColumns(result_set, formatted[1])

\* two full rows under two distinct columns have been normalised into two
\* records
C7_Witness ==
    /\ formatted # <<>>
    /\ ~formatted[1].raised
    /\ HasPrimaryTable(result_set)
    /\ ColumnNamesOf(result_set.primary_results[1]) = <<"Column1", "Column2">>
    /\ Len(result_set.primary_results[1].rows) = 2
    /\ \A i \in 1..2 : Len(result_set.primary_results[1].rows[i]) = 2
    /\ Len(formatted[1].value) = 2

\* the number of rows a response's result set normalises to
RowCount(rs) == IF HasPrimaryTable(rs) THEN Len(rs.primary_results[1].rows) ELSE 0

\* C8: when execute raises, the invocation raises that same exception and
\* returns nothing; no invocation issues a second execute call; every
\* invocation either raises with nothing returned or returns one record
\* per row of the result set execute gave back.
C8_ExecuteFailurePropagates ==
    \A i \in Invocations :
        LET h == history[i]
        IN /\ Cardinality(CallsOf(i)) <= 1
           /\ (CallsOf(i) # {} /\ h.response.raised) =>
                /\ h.outcome.raised
                /\ h.outcome.exc = h.response.exc
                /\ h.outcome.value = <<>>
           /\ \/ h.outcome.raised /\ h.outcome.value = <<>>
              \/ /\ ~h.outcome.raised
                 /\ CallsOf(i) # {}
                 /\ ~h.response.raised
                 /\ Len(h.outcome.value) = RowCount(h.response.value)

\* an execute call has failed with ConnectionError and the invocation has
\* raised it
C8_Witness ==
    \E i \in Invocations :
        /\ CallsOf(i) # {}
        /\ history[i].response.raised
        /\ history[i].response.exc.type = "ConnectionError"
        /\ history[i].outcome.raised

\* C9: the number of client handles constructed equals the number of
\* invocations that passed the configuration and the credentials check; no
\* handle serves two invocations; every execute call is made on the handle
\* its own invocation obtained.
C9_FreshClientPerInvocation ==
    /\ Cardinality(clients) = Cardinality({i \in Invocations : Usable})
    /\ \A c1, c2 \in clients : c1.id = c2.id => c1 = c2
    /\ \A i1, i2 \in Invocations :
        (history[i1].client # 0 /\ history[i1].client = history[i2].client) => i1 = i2
    /\ \A k \in 1..Len(execute_calls) :
        /\ execute_calls[k].client = history[execute_calls[k].inv].client
        /\ \E c \in clients : c.id = execute_calls[k].client
    /\ \A k1, k2 \in 1..Len(execute_calls) :
        execute_calls[k1].client = execute_calls[k2].client => execute_calls[k1].inv = execute_calls[k2].inv

\* two invocations have each executed on a handle of their own
C9_Witness ==
    /\ Len(execute_calls) = 2
    /\ Cardinality(clients) = 2
    /\ execute_calls[1].client # execute_calls[2].client

\* C10: no step of any tool changes any of the five configuration fields.
C10_ConfigNeverWritten ==
    [][/\ config'.cluster_url = config.cluster_url
       /\ config'.database = config.database
       /\ config'.tenant_id = config.tenant_id
       /\ config'.client_id = config.client_id
       /\ config'.client_secret = config.client_secret]_vars

\* with the credentials complete, one invocation has returned records and
\* another has failed in execute
C10_Witness ==
    /\ Usable
    /\ Len(history) = 2
    /\ ~history[1].outcome.raised
    /\ history[1].outcome.value # <<>>
    /\ history[2].outcome.raised
    /\ history[2].response.raised

\* what an invocation running alone produces from the configuration and the
\* response of its own execute call
AloneOutcomeIs(k) ==
    IF EndpointOrDatabaseEmpty
    THEN k.outcome.raised /\ k.outcome.value = <<>> /\ Contains(k.outcome.exc.msg, "configuration is missing")
    ELSE IF SomeCredentialAbsent
    THEN k.outcome.raised /\ k.outcome.value = <<>> /\ Contains(k.outcome.exc.msg, "credentials are missing")
    ELSE IF k.response.raised
    THEN k.outcome = Raise(k.response.exc)
    ELSE k.outcome = format_query_results(k.response.value)

\* the query text an invocation running alone passes to execute
AloneText(k) == IF k.op = "execute_query" THEN k.args.query ELSE ExpectedText(k)

\* C11: in every interleaving of concurrently dispatched invocations, each
\* finished invocation has the outcome it would have running alone with
\* the same configuration and the same response of its own execute call;
\* it issues its execute call (at most one, and exactly one once it has
\* passed both checks and executed) with the configured, non-empty database
\* and its own query text, on a client no other invocation holds.
C11_InvocationsIndependent ==
    \A t \in 1..MaxTasks :
        LET k == tasks[t]
        IN /\ k.pc = "done" => AloneOutcomeIs(k)
           /\ Cardinality(CallsOf(t)) = (IF k.pc \in {"format", "done"} /\ Usable THEN 1 ELSE 0)
           /\ \A c \in CallsOf(t) :
                /\ execute_calls[c].database = config.database
                /\ execute_calls[c].database.type = "str"
                /\ execute_calls[c].database.val # ""
                /\ execute_calls[c].query = AloneText(k)
                /\ execute_calls[c].client = k.client
                /\ \A u \in 1..MaxTasks : tasks[u].client = k.client => u = t

\* two invocations have overlapped: task 1 obtained its client first, task 2
\* executed first, and both have finished, one with records and one with
\* the error of its own execute call
C11_Witness ==
    /\ tasks[1].pc = "done"
    /\ tasks[2].pc = "done"
    /\ tasks[1].client = 1
    /\ Len(execute_calls) >= 2
    /\ execute_calls[1].inv = 2
    /\ execute_calls[2].inv = 1
    /\ tasks[1].outcome.raised
    /\ ~tasks[2].outcome.raised
    /\ tasks[2].outcome.value # <<>>

====
